---------------------------- MODULE Spec2Model ----------------------------
(***************************************************************************)
(* Model of ContinuousWillhabenScraper (src/scraper_247_python.py).        *)
(*                                                                         *)
(* Every call of start_247_scraping is one asyncio task.  A task runs      *)
(* without interruption from one await that suspends (a network fetch, a   *)
(* body read, a pacing sleep, the session close) to the next; `active` is  *)
(* the task that holds the event loop (0: every task is suspended).        *)
(* stop_scraping, a new start_247_scraping and the resumption of a         *)
(* suspended task happen only while active = 0.  One action models one     *)
(* statement (or one straight-line group of statements) of the source.     *)
(***************************************************************************)
EXTENDS Integers, Sequences, FiniteSets, TLC

(***************************************************************************)
(* Bounds of the model.                                                    *)
(***************************************************************************)
\* number of start_247_scraping calls (tasks)
MaxStarts == 2
\* loop iterations begun in total (caps current_cycle)
MaxCycle == 2
\* cap on the result buffer
MaxFound == 2
\* number of configured categories the model keeps (of the four of the source)
NumCategories == 2
\* largest limit handed to get_recent_listings
MaxLimit == 3
\* longest buffer get_recent_listings is tried on
MaxBuf == 3
\* most anchors on a search-result page handed to the Discoverer
MaxAnchors == 2

(***************************************************************************)
(* Program constants.                                                      *)
(***************************************************************************)
\* range(1, 4): pages 1..3
LastPage == 3
RateLimitDelay == 60
ErrorDelay == 600
ListingDelayMin == 5
ListingDelayMax == 12
PageDelayMin == 15
PageDelayMax == 30
CategoryDelayMin == 180
CategoryDelayMax == 480
CycleDelayMin == 1200
CycleDelayMax == 2700

Tasks == 1..MaxStarts

\* self.categories, in definition order
AllCategories ==
  << "eigentumswohnung-wien", "grundstueck-niederoesterreich",
     "eigentumswohnung-niederoesterreich", "grundstueck-wien" >>

Categories == { AllCategories[i] : i \in 1..NumCategories }

\* random.randint(lo, hi), sampled at the two ends of the window
RandInt(lo, hi) == {lo, hi}

(***************************************************************************)
(* Text: a string is a sequence of one-character strings.                  *)
(***************************************************************************)
UpperLetters ==
  << "A","B","C","D","E","F","G","H","I","J","K","L","M","N","O","P","Q",
     "R","S","T","U","V","W","X","Y","Z","Ä","Ö","Ü" >>

LowerLetters ==
  << "a","b","c","d","e","f","g","h","i","j","k","l","m","n","o","p","q",
     "r","s","t","u","v","w","x","y","z","ä","ö","ü" >>

\* str.lower() on one character
LowerChar(c) ==
  IF \E i \in 1..Len(UpperLetters) : UpperLetters[i] = c
  THEN LowerLetters[CHOOSE i \in 1..Len(UpperLetters) : UpperLetters[i] = c]
  ELSE c

\* str.lower()
Lower(s) == [i \in 1..Len(s) |-> LowerChar(s[i])]

\* needle in hay (substring test)
Contains(hay, needle) ==
  \E i \in 0..(Len(hay) - Len(needle)) :
     \A j \in 1..Len(needle) : hay[i + j] = needle[j]

Digits == {"0","1","2","3","4","5","6","7","8","9"}

DigitValue(c) ==
  CASE c = "0" -> 0 [] c = "1" -> 1 [] c = "2" -> 2 [] c = "3" -> 3
    [] c = "4" -> 4 [] c = "5" -> 5 [] c = "6" -> 6 [] c = "7" -> 7
    [] c = "8" -> 8 [] c = "9" -> 9

\* re.sub(r'[^\d]', '', s)
OnlyDigits(s) == SelectSeq(s, LAMBDA c : c \in Digits)

RECURSIVE ParseInt(_)
\* int(s) of a non-empty digit string
ParseInt(s) ==
  IF s = << >> THEN 0
  ELSE 10 * ParseInt(SubSeq(s, 1, Len(s) - 1)) + DigitValue(s[Len(s)])

\* an element a selector did not find
NoElement == << "<none>" >>


(***************************************************************************)
(* Field Extractor and Classifier.  A parsed detail page (soup) is a       *)
(* record: price_els[i] is the text of the element the i-th price selector *)
(* finds (NoElement if none), props_els likewise for the area selectors,   *)
(* body the rest of the visible text.                                      *)
(***************************************************************************)
\* soup.get_text(): the text of every element of the page
get_text(soup) ==
  LET Txt(e) == IF e = NoElement THEN << >> ELSE e
  IN  Txt(soup.price_els[1]) \o Txt(soup.price_els[2]) \o Txt(soup.price_els[3])
        \o Txt(soup.props_els[1]) \o Txt(soup.props_els[2]) \o soup.body

RECURSIVE PriceFrom(_, _)
\* the selector loop of extract_price, from selector i on
PriceFrom(soup, i) ==
  IF i > Len(soup.price_els) THEN 0
  ELSE LET element == soup.price_els[i]
           price_text == OnlyDigits(element)
       IN  IF element # NoElement /\ price_text # << >>
           THEN ParseInt(price_text)
           ELSE PriceFrom(soup, i + 1)

\* extract_price that returns at the first selector that finds an element,
\* whether or not its text holds a digit
extract_price_first_match(soup) ==
  LET found == { i \in 1..Len(soup.price_els) : soup.price_els[i] # NoElement }
  IN  IF found = {} THEN 0
      ELSE ParseInt(OnlyDigits(soup.price_els[CHOOSE i \in found : \A j \in found : i <= j]))

extract_price(soup) == PriceFrom(soup, 1)

WhiteSpace == {" "}

\* re.search(r'(\d+)\s*m²', text, re.IGNORECASE): the places a match starts,
\* each with the end of its digit run
AreaMatches(text) ==
  { m \in (1..Len(text)) \X (1..Len(text)) :
      /\ m[1] <= m[2]
      /\ \A k \in m[1]..m[2] : text[k] \in Digits
      /\ (m[2] < Len(text) => text[m[2] + 1] \notin Digits)
      /\ \E u \in (m[2] + 1)..(Len(text) - 1) :
            /\ \A k \in (m[2] + 1)..(u - 1) : text[k] \in WhiteSpace
            /\ text[u] \in {"m", "M"}
            /\ text[u + 1] = "²" }

RECURSIVE AreaFrom(_, _)
\* the selector loop of extract_area, from selector i on
AreaFrom(soup, i) ==
  IF i > Len(soup.props_els) THEN 0
  ELSE LET element == soup.props_els[i]
           ms == IF element = NoElement THEN {} ELSE AreaMatches(element)
       IN  IF ms # {}
           THEN LET first == CHOOSE m \in ms : \A o \in ms : m[1] <= o[1]
                IN  ParseInt(SubSeq(element, first[1], first[2]))
           ELSE AreaFrom(soup, i + 1)

extract_area(soup) == AreaFrom(soup, 1)

private_keywords ==
  << << "p","r","i","v","a","t","v","e","r","k","a","u","f" >>,
     << "p","r","i","v","a","t"," ","v","e","r","k","a","u","f" >>,
     << "v","o","n"," ","p","r","i","v","a","t" >>,
     << "p","r","i","v","a","t","e","r"," ","v","e","r","k","ä","u","f","e","r" >>,
     << "d","o","p","p","e","l","m","a","r","k","l","e","r" >>,
     << "o","h","n","e"," ","m","a","k","l","e","r" >> >>

\* any(keyword in text_content for keyword in private_keywords)
is_private(soup) ==
  LET text_content == Lower(get_text(soup))
  IN  \E k \in 1..Len(private_keywords) : Contains(text_content, private_keywords[k])

\* price // area for round(price / area)
PyRound_floor(price, area) == price \div area

\* round(price / area): Python rounds a half to the even neighbour
PyRound(price, area) ==
  LET q == price \div area
      r == price % area
  IN  IF 2 * r < area THEN q
      ELSE IF 2 * r > area THEN q + 1
      ELSE IF q % 2 = 0 THEN q ELSE q + 1

NoListing == [url |-> << >>, price |-> 0, area |-> 0, eur_per_m2 |-> 0]

\* ListingOf with `or` for `and` in the test of line 215
ListingOf_or(url, soup) ==
  LET price == extract_price(soup)
      area == extract_area(soup)
  IN  IF is_private(soup) \/ price > 0
      THEN [url |-> url, price |-> price, area |-> area,
            eur_per_m2 |-> IF area > 0 THEN PyRound(price, area) ELSE 0]
      ELSE NoListing

\* extract_listing_details once the page is parsed: the listing, or None
ListingOf(url, soup) ==
  LET price == extract_price(soup)
      area == extract_area(soup)
  IN  IF is_private(soup) /\ price > 0
      THEN [url |-> url, price |-> price, area |-> area,
            eur_per_m2 |-> IF area > 0 THEN PyRound(price, area) ELSE 0]
      ELSE NoListing

(***************************************************************************)
(* The site: hrefs and URLs are sequences of tokens (origin, path          *)
(* fragment, listing id, query); its detail pages are fixed.               *)
(***************************************************************************)
Origin == "https://www.willhaben.at"
Fragment == "/iad/immobilien/d/"
SlashTokens == {Fragment, "/iad/immobilien/"}

\* '/iad/immobilien/d/' in href
HasFragment(href) == \E i \in 1..Len(href) : href[i] = Fragment

\* href.startswith('/')
StartsWithSlash(href) == href # << >> /\ href[1] \in SlashTokens

\* the Discoverer: listing_urls of parse_listings_page for the anchors' hrefs
Discover(hrefs) ==
  { IF StartsWithSlash(hrefs[i]) THEN << Origin >> \o hrefs[i] ELSE hrefs[i] :
      i \in { j \in 1..Len(hrefs) : HasFragment(hrefs[j]) } }

DocAAA ==
  [ price_els |-> << << "€"," ","3",".","0","0","0" >>, NoElement, NoElement >>,
    props_els |-> << << "c","a","."," ","7","5"," ","m","²" >>, NoElement >>,
    body |-> << "P","R","I","V","A","T","V","E","R","K","A","U","F" >> ]

DocBBB ==
  [ price_els |-> << << "V","B" >>, << "2",".","0","0","0" >>, NoElement >>,
    props_els |-> << NoElement, NoElement >>,
    body |-> << "V","o","n"," ","P","r","i","v","a","t" >> ]

DocCCC ==
  [ price_els |-> << NoElement, NoElement, << "9","9","0" >> >>,
    props_els |-> << NoElement, << "4","0","m","²" >> >>,
    body |-> << "M","a","k","l","e","r" >> ]

DocDDD ==
  [ price_els |-> << << "a","u","f"," ","A","n","f","r","a","g","e" >>, NoElement, NoElement >>,
    props_els |-> << NoElement, NoElement >>,
    body |-> << "o","h","n","e"," ","M","a","k","l","e","r" >> ]

DocEEE ==
  [ price_els |-> << << "€"," ","7","0",",","-" >>, NoElement, NoElement >>,
    props_els |-> << << "2","0"," ","M","²" >>, NoElement >>,
    body |-> << "P","r","i","v","a","t","e","r"," ","V","e","r","k","ä","u","f","e","r" >> ]

\* the listing id of a detail URL: the token after the path fragment
ListingId(url) ==
  LET i == CHOOSE j \in 1..Len(url) : url[j] = Fragment
  IN  IF i < Len(url) THEN url[i + 1] ELSE ""

\* the detail page the site serves for a URL
DetailPage(url) ==
  CASE ListingId(url) = "AAA" -> DocAAA
    [] ListingId(url) = "BBB" -> DocBBB
    [] ListingId(url) = "CCC" -> DocCCC
    [] ListingId(url) = "EEE" -> DocEEE
    [] OTHER -> DocDDD

\* anchors of the search-result pages the site serves
SearchPages ==
  { << >>,
    << << Fragment, "AAA" >>, << "/iad/immobilien/", "neubau" >>,
       << Origin, Fragment, "CCC" >>, << Fragment, "AAA" >> >>,
    << << Fragment, "DDD" >> >> }

\* a URL aiohttp accepts: it begins with a scheme and host
IsAbsolute(u) == u # << >> /\ u[1] \notin SlashTokens /\ u[1] # ".."

\* random.shuffle: the orders a list of the set S can be left in
Shuffles(S) ==
  { q \in [1..Cardinality(S) -> S] : \A i, j \in 1..Cardinality(S) : q[i] = q[j] => i = j }

(***************************************************************************)
(* State.                                                                  *)
(***************************************************************************)
VARIABLES
  is_running,       \* self.is_running
  current_cycle,    \* self.current_cycle
  found_listings,   \* self.found_listings
  session,          \* self.session: "none", "open" or "closed"
  active,           \* the task that holds the event loop, 0 if all are suspended
  pc,               \* pc[t]: the statement task t is at
  categories_list,  \* continuous_scan_loop: the shuffled categories not yet done
  page,             \* scan_category: page
  listing_urls,     \* parse_listings_page: URLs not yet visited
  url,              \* extract_listing_details: url
  listings,         \* parse_listings_page: listings
  todo,             \* scan_category: the listings its for loop has not reached
  status,           \* get_page_listings: outcome of the page request
  events,           \* messages given to progress_callback since the event loop last
                    \* resumed a task (or ran a call of start_247_scraping)
  delay,            \* seconds of the sleep task t is in (0: not sleeping)
  full_passes,      \* passes in which the for loop over the categories ran to its end
  reply,            \* what the last direct call of get_status, get_recent_listings
                    \* or extract_price returned (and its argument)
  backoff_due,      \* task t got an HTTP 429 and has since neither slept the 60 s
                    \* back-off nor sent a request
  pacing            \* pacing[t]: for each pacing sleep of task t, whether it is due
                    \* before the next append or request it paces: "owed" (a
                    \* listing was appended, a search-result page was requested, a
                    \* category scan returned, the loop over the categories ended,
                    \* and that sleep has not completed since), "covered" (due,
                    \* and the category pause or the recovery sleep of a handler
                    \* has completed since) or "none"

shared == << is_running, current_cycle, found_listings, session >>
locals == << categories_list, page, listing_urls, url, listings, todo, status >>
vars == << is_running, current_cycle, found_listings, session, active, pc,
           categories_list, page, listing_urls, url, listings, todo, status,
           events, delay, full_passes, reply, pacing,
                  backoff_due >>

NoPacing == [listing |-> "none", page |-> "none", category |-> "none", cycle |-> "none"]

\* the pacing sleep named kind falls due for task t
Owe(t, kind) ==
  pacing' = [pacing EXCEPT ![t] =
               CASE kind = "listing" -> [@ EXCEPT !.listing = "owed"]
                 [] kind = "page" -> [@ EXCEPT !.page = "owed"]
                 [] kind = "category" -> [@ EXCEPT !.category = "owed"]
                 [] OTHER -> [@ EXCEPT !.cycle = "owed"]]

\* statements at which a task is suspended (or not running)
SuspendPcs ==
  { "idle", "returned", "raised", "page_wait", "page_text", "detail_wait",
    "detail_text", "sleep_listing", "sleep_page", "sleep_rate", "sleep_cat",
    "sleep_cycle", "sleep_err" }

SleepPcs ==
  { "sleep_listing", "sleep_page", "sleep_rate", "sleep_cat", "sleep_cycle", "sleep_err" }

\* a request is in flight
FetchPcs == { "page_wait", "page_text", "detail_wait", "detail_text" }

\* task t goes on at statement l; it gives up the event loop if l suspends
Goto(t, l) ==
  /\ pc' = [pc EXCEPT ![t] = l]
  /\ active' = IF l \in SuspendPcs THEN 0 ELSE t

\* progress_callback(m)
Emit(m) == events' = Append(events, m)

\* a parsed page on which no selector finds an element
NoSoup ==
  [ price_els |-> << NoElement, NoElement, NoElement >>,
    props_els |-> << NoElement, NoElement >>,
    body |-> << >> ]

NoReply ==
  [op |-> "none", limit |-> 0, listings |-> << >>,
   is_running |-> FALSE, current_cycle |-> 0, total_found |-> 0,
   soup |-> NoSoup, price |-> 0]

Init ==
  /\ is_running = FALSE
  /\ current_cycle = 0
  /\ found_listings = << >>
  /\ session = "none"
  /\ active = 0
  /\ pc = [t \in Tasks |-> "idle"]
  /\ categories_list = [t \in Tasks |-> << >>]
  /\ page = [t \in Tasks |-> 0]
  /\ listing_urls = [t \in Tasks |-> {}]
  /\ url = [t \in Tasks |-> << >>]
  /\ listings = [t \in Tasks |-> << >>]
  /\ todo = [t \in Tasks |-> << >>]
  /\ status = [t \in Tasks |-> "none"]
  /\ events = << >>
  /\ delay = [t \in Tasks |-> 0]
  /\ full_passes = 0
  /\ reply = NoReply
  /\ pacing = [t \in Tasks |-> NoPacing]
  /\ backoff_due = [t \in Tasks |-> FALSE]

(***************************************************************************)
(* start_247_scraping, stop_scraping.                                      *)
(***************************************************************************)
\* start_247_scraping without the return of line 43
start_247_scraping_no_return(t) ==
  /\ active = 0
  /\ pc[t] = "idle"
  /\ \A u \in 1..(t - 1) : pc[u] # "idle"
  /\ events' = IF is_running THEN << "already" >> ELSE << >>
  /\ is_running' = TRUE
  /\ Goto(t, "cb_started")
  /\ UNCHANGED << current_cycle, found_listings, session, locals, delay, full_passes, reply, pacing,
                  backoff_due >>

\* lines 41-45: a call of start_247_scraping; the calls take the tasks in order
start_247_scraping(t) ==
  /\ active = 0
  /\ pc[t] = "idle"
  /\ \A u \in 1..(t - 1) : pc[u] # "idle"
  /\ IF is_running
     THEN /\ events' = << "already" >>
          /\ \E ok \in BOOLEAN : Goto(t, IF ok THEN "returned" ELSE "raised")
          /\ UNCHANGED is_running
     ELSE /\ is_running' = TRUE
          /\ events' = << >>
          /\ Goto(t, "cb_started")
  /\ UNCHANGED << current_cycle, found_listings, session, locals, delay, full_passes, reply, pacing,
                  backoff_due >>

\* lines 46-51; an exception of the callback leaves start_247_scraping before the
\* session is made and before the try
announce_start(t) ==
  /\ active = t
  /\ pc[t] = "cb_started"
  /\ Emit("started")
  /\ \E ok \in BOOLEAN :
        IF ok
        THEN /\ session' = "open"
             /\ Goto(t, "while")
        ELSE /\ Goto(t, "raised")
             /\ UNCHANGED session
  /\ UNCHANGED << is_running, current_cycle, found_listings, locals, delay,
                  full_passes, reply, pacing,
                  backoff_due >>

\* lines 298-300
stop_scraping ==
  /\ active = 0
  /\ is_running' = FALSE
  /\ UNCHANGED << current_cycle, found_listings, session, active, pc, locals, events,
                  delay, full_passes, reply, pacing,
                  backoff_due >>

(***************************************************************************)
(* continuous_scan_loop.                                                   *)
(***************************************************************************)
\* loop_head without the increment of line 61
loop_head_no_count(t) ==
  /\ active = t
  /\ pc[t] = "while"
  /\ IF is_running
     THEN /\ Goto(t, "cb_cycle")
          /\ UNCHANGED session
     ELSE /\ session' = "closed"
          /\ Goto(t, "returned")
  /\ backoff_due' = [backoff_due EXCEPT ![t] = @ /\ pc'[t] # "returned"]
  /\ pacing' = [pacing EXCEPT ![t] = IF pc'[t] = "returned" THEN NoPacing ELSE @]
  /\ UNCHANGED << is_running, current_cycle, found_listings, locals, events, delay,
                  full_passes, reply >>

\* lines 60-61; when the loop ends, lines 55-56: the session is closed and
\* start_247_scraping returns
loop_head(t) ==
  /\ active = t
  /\ pc[t] = "while"
  /\ IF is_running
     THEN /\ current_cycle < MaxCycle
          /\ current_cycle' = current_cycle + 1
          /\ Goto(t, "cb_cycle")
          /\ UNCHANGED session
     ELSE /\ session' = "closed"
          /\ Goto(t, "returned")
          /\ UNCHANGED current_cycle
  /\ UNCHANGED << is_running, found_listings, locals, events, delay, full_passes, reply >>
  /\ backoff_due' = [backoff_due EXCEPT ![t] = @ /\ pc'[t] # "returned"]
  \* no append or request follows the end of the loop
  /\ pacing' = [pacing EXCEPT ![t] = IF pc'[t] = "returned" THEN NoPacing ELSE @]

\* lines 64-68
announce_cycle(t) ==
  /\ active = t
  /\ pc[t] = "cb_cycle"
  /\ Emit("cycle")
  /\ \E ok \in BOOLEAN, order \in Shuffles(Categories) :
        IF ok
        THEN /\ categories_list' = [categories_list EXCEPT ![t] = order]
             /\ Goto(t, "for_category")
        ELSE /\ Goto(t, "cb_cycle_err")
             /\ UNCHANGED categories_list
  /\ UNCHANGED << shared, page, listing_urls, url, listings, todo, status, delay,
                  full_passes, reply, pacing,
                  backoff_due >>

\* lines 70-72: the for loop's head; it ends when the list is used up or at the break
for_category(t) ==
  /\ active = t
  /\ pc[t] = "for_category"
  /\ IF categories_list[t] = << >>
     THEN /\ full_passes' = full_passes + 1
          /\ Goto(t, "cycle_delay")
          /\ Owe(t, "cycle")
          /\ UNCHANGED categories_list
     ELSE IF ~is_running
     THEN /\ categories_list' = [categories_list EXCEPT ![t] = << >>]
          /\ Goto(t, "cycle_delay")
          /\ Owe(t, "cycle")
          /\ UNCHANGED full_passes
     ELSE /\ Goto(t, "cb_scan")
          /\ UNCHANGED << categories_list, full_passes, pacing >>
  /\ UNCHANGED << shared, page, listing_urls, url, listings, todo, status, events,
                  delay, reply,
                  backoff_due >>

\* lines 77-79: after scan_category returned
category_delay(t) ==
  /\ active = t
  /\ pc[t] = "category_delay"
  /\ Emit("pause")
  /\ \E ok \in BOOLEAN, d \in RandInt(CategoryDelayMin, CategoryDelayMax) :
        IF ok
        THEN /\ delay' = [delay EXCEPT ![t] = d]
             /\ Goto(t, "sleep_cat")
        ELSE /\ Goto(t, "cb_cycle_err")
             /\ UNCHANGED delay
  /\ UNCHANGED << shared, locals, full_passes, reply, pacing,
                  backoff_due >>

\* lines 82-84
cycle_delay(t) ==
  /\ active = t
  /\ pc[t] = "cycle_delay"
  /\ Emit("complete")
  /\ \E ok \in BOOLEAN, d \in RandInt(CycleDelayMin, CycleDelayMax) :
        IF ok
        THEN /\ delay' = [delay EXCEPT ![t] = d]
             /\ Goto(t, "sleep_cycle")
        ELSE /\ Goto(t, "cb_cycle_err")
             /\ UNCHANGED delay
  /\ UNCHANGED << shared, locals, full_passes, reply, pacing,
                  backoff_due >>

\* lines 86-88: the handler of the loop body; an exception of its callback leaves the
\* loop, the finally clause closes the session (lines 55-56) and start_247_scraping raises
cycle_error(t) ==
  /\ active = t
  /\ pc[t] = "cb_cycle_err"
  /\ Emit("cycle_error")
  /\ \E ok \in BOOLEAN :
        IF ok
        THEN /\ delay' = [delay EXCEPT ![t] = ErrorDelay]
             /\ Goto(t, "sleep_err")
             /\ UNCHANGED session
        ELSE /\ session' = "closed"
             /\ Goto(t, "raised")
             /\ UNCHANGED delay
  \* the locals of the abandoned pass are dead
  /\ categories_list' = [categories_list EXCEPT ![t] = << >>]
  /\ page' = [page EXCEPT ![t] = 0]
  /\ todo' = [todo EXCEPT ![t] = << >>]
  /\ status' = [status EXCEPT ![t] = "none"]
  /\ UNCHANGED << is_running, current_cycle, found_listings, listing_urls, url, listings,
                  full_passes, reply >>
  /\ backoff_due' = [backoff_due EXCEPT ![t] = @ /\ pc'[t] # "raised"]
  /\ pacing' = [pacing EXCEPT ![t] = IF pc'[t] = "raised" THEN NoPacing ELSE @]

(***************************************************************************)
(* scan_category.                                                          *)
(***************************************************************************)
\* line 92, outside the try of scan_category
announce_scan(t) ==
  /\ active = t
  /\ pc[t] = "cb_scan"
  /\ Emit("scan")
  /\ \E ok \in BOOLEAN :
        IF ok
        THEN /\ page' = [page EXCEPT ![t] = 1]
             /\ Goto(t, "for_page")
        ELSE /\ Goto(t, "cb_cycle_err")
             /\ UNCHANGED page
  /\ UNCHANGED << shared, categories_list, listing_urls, url, listings, todo, status,
                  delay, full_passes, reply, pacing,
                  backoff_due >>

\* for_page with range(1, 5) for range(1, 4)
for_page_one_more(t) ==
  /\ active = t
  /\ pc[t] = "for_page"
  /\ IF page[t] > LastPage + 1 \/ ~is_running
     THEN /\ page' = [page EXCEPT ![t] = 0]
          /\ status' = [status EXCEPT ![t] = "none"]
          /\ Goto(t, "category_delay")
          /\ Owe(t, "category")
     ELSE IF session = "open"
     THEN /\ status' = [status EXCEPT ![t] = "sent"]
          /\ Goto(t, "page_wait")
          /\ pacing' = [pacing EXCEPT ![t] =
                          [listing |-> "none", page |-> "owed", cycle |-> "none",
                           category |-> IF page[t] = 1 THEN "none" ELSE @.category]]
          /\ UNCHANGED page
     ELSE /\ status' = [status EXCEPT ![t] = "error"]
          /\ Goto(t, "cb_request_err")
          /\ UNCHANGED << page, pacing >>
  /\ UNCHANGED << shared, categories_list, listing_urls, url, listings, todo, events,
                  delay, full_passes, reply >>
  /\ backoff_due' = [backoff_due EXCEPT ![t] = @ /\ pc'[t] # "page_wait"]

\* lines 96-101, 136: the for loop's head, then the request of the search-result page;
\* scan_category returns when the loop ends; a closed session raises at the request
for_page(t) ==
  /\ active = t
  /\ pc[t] = "for_page"
  /\ IF page[t] > LastPage \/ ~is_running
     THEN /\ page' = [page EXCEPT ![t] = 0]
          /\ status' = [status EXCEPT ![t] = "none"]
          /\ Goto(t, "category_delay")
          /\ Owe(t, "category")
     ELSE IF session = "open"
     THEN /\ status' = [status EXCEPT ![t] = "sent"]
          /\ Goto(t, "page_wait")
          /\ pacing' = [pacing EXCEPT ![t] =
                          [listing |-> "none", page |-> "owed", cycle |-> "none",
                           category |-> IF page[t] = 1 THEN "none" ELSE @.category]]
          /\ UNCHANGED page
     ELSE /\ status' = [status EXCEPT ![t] = "error"]
          /\ Goto(t, "cb_request_err")
          /\ UNCHANGED << page, pacing >>
  /\ UNCHANGED << shared, categories_list, listing_urls, url, listings, todo, events,
                  delay, full_passes, reply >>
  /\ backoff_due' = [backoff_due EXCEPT ![t] = @ /\ pc'[t] # "page_wait"]

\* line 103
announce_page(t) ==
  /\ active = t
  /\ pc[t] = "cb_page"
  /\ Emit("page")
  /\ \E ok \in BOOLEAN : Goto(t, IF ok THEN "for_listing" ELSE "cb_category_err")
  /\ UNCHANGED << shared, locals, delay, full_passes, reply, pacing,
                  backoff_due >>

\* for_listing without the test of lines 107-108
for_listing_no_check(t) ==
  /\ active = t
  /\ pc[t] = "for_listing"
  /\ IF todo[t] = << >>
     THEN /\ todo' = [todo EXCEPT ![t] = << >>]
          /\ \E d \in RandInt(PageDelayMin, PageDelayMax) :
                delay' = [delay EXCEPT ![t] = d]
          /\ Goto(t, "sleep_page")
          /\ UNCHANGED << found_listings, pacing >>
     ELSE /\ Len(found_listings) < MaxFound
          /\ found_listings' = Append(found_listings, Head(todo[t]))
          /\ todo' = [todo EXCEPT ![t] = Tail(@)]
          /\ Goto(t, "cb_fund")
          /\ Owe(t, "listing")
          /\ UNCHANGED delay
  /\ UNCHANGED << is_running, current_cycle, session, categories_list, page, listing_urls,
                  url, listings, status, events, full_passes, reply,
                  backoff_due >>

\* lines 106-111: the for loop's head and the append; line 118 when the loop ends
for_listing(t) ==
  /\ active = t
  /\ pc[t] = "for_listing"
  /\ IF todo[t] = << >> \/ ~is_running
     THEN /\ todo' = [todo EXCEPT ![t] = << >>]
          /\ \E d \in RandInt(PageDelayMin, PageDelayMax) :
                delay' = [delay EXCEPT ![t] = d]
          /\ Goto(t, "sleep_page")
          /\ UNCHANGED << found_listings, pacing >>
     ELSE /\ Len(found_listings) < MaxFound
          /\ found_listings' = Append(found_listings, Head(todo[t]))
          /\ todo' = [todo EXCEPT ![t] = Tail(@)]
          /\ Goto(t, "cb_fund")
          /\ Owe(t, "listing")
          /\ UNCHANGED delay
  /\ UNCHANGED << is_running, current_cycle, session, categories_list, page, listing_urls,
                  url, listings, status, events, full_passes, reply,
                  backoff_due >>

\* announce_listing without the sleep of line 115
announce_listing_no_sleep(t) ==
  /\ active = t
  /\ pc[t] = "cb_fund"
  /\ Emit("fund")
  /\ \E ok \in BOOLEAN, d \in RandInt(ListingDelayMin, ListingDelayMax) :
        IF ok
        THEN /\ Goto(t, "for_listing")
             /\ UNCHANGED delay
        ELSE /\ Goto(t, "cb_category_err")
             /\ UNCHANGED delay
  /\ UNCHANGED << shared, locals, full_passes, reply, pacing,
                  backoff_due >>

\* lines 112-115
announce_listing(t) ==
  /\ active = t
  /\ pc[t] = "cb_fund"
  /\ Emit("fund")
  /\ \E ok \in BOOLEAN, d \in RandInt(ListingDelayMin, ListingDelayMax) :
        IF ok
        THEN /\ delay' = [delay EXCEPT ![t] = d]
             /\ Goto(t, "sleep_listing")
        ELSE /\ Goto(t, "cb_category_err")
             /\ UNCHANGED delay
  /\ UNCHANGED << shared, locals, full_passes, reply, pacing,
                  backoff_due >>

\* lines 120-121: the handler of scan_category; the loop over the pages is inside the try
category_error(t) ==
  /\ active = t
  /\ pc[t] = "cb_category_err"
  /\ Emit("category_error")
  /\ \E ok \in BOOLEAN :
        IF ok
        THEN /\ Goto(t, "category_delay")
             /\ Owe(t, "category")
        ELSE /\ Goto(t, "cb_cycle_err")
             /\ UNCHANGED pacing
  \* the locals of the abandoned scan are dead
  /\ page' = [page EXCEPT ![t] = 0]
  /\ todo' = [todo EXCEPT ![t] = << >>]
  /\ status' = [status EXCEPT ![t] = "none"]
  /\ UNCHANGED << shared, categories_list, listing_urls, url, listings, delay,
                  full_passes, reply,
                  backoff_due >>

(***************************************************************************)
(* get_page_listings.                                                      *)
(***************************************************************************)
PageOutcomes == {"200", "429", "500", "error"}

\* lines 136-146: the response arrives (or the transport fails)
page_response(t) ==
  /\ active = 0
  /\ pc[t] = "page_wait"
  /\ \E outcome \in PageOutcomes :
        /\ status' = [status EXCEPT ![t] = outcome]
        /\ backoff_due' = [backoff_due EXCEPT ![t] = (outcome = "429")]
        /\ Goto(t, CASE outcome = "200" -> "page_text"
                     [] outcome = "429" -> "cb_rate_limit"
                     [] outcome = "500" -> "cb_http"
                     [] OTHER -> "cb_request_err")
  /\ events' = << >>
  /\ UNCHANGED << shared, categories_list, page, listing_urls, url, listings, todo,
                  delay, full_passes, reply, pacing >>

\* lines 138-139, 154-172: the body is read and parsed (or either fails)
page_body(t, pages) ==
  /\ active = 0
  /\ pc[t] = "page_text"
  /\ \E ok \in BOOLEAN, hrefs \in pages :
        IF ok
        THEN /\ listing_urls' = [listing_urls EXCEPT ![t] = Discover(hrefs)]
             /\ Goto(t, "for_url")
             /\ UNCHANGED status
        ELSE /\ status' = [status EXCEPT ![t] = "error"]
             /\ Goto(t, "cb_request_err")
             /\ UNCHANGED listing_urls
  /\ listings' = [listings EXCEPT ![t] = << >>]
  /\ events' = << >>
  /\ UNCHANGED << shared, categories_list, page, url, todo, delay, full_passes, reply, pacing,
                  backoff_due >>

\* lines 140-143
rate_limited(t) ==
  /\ active = t
  /\ pc[t] = "cb_rate_limit"
  /\ Emit("rate_limit")
  /\ \E ok \in BOOLEAN :
        IF ok
        THEN /\ delay' = [delay EXCEPT ![t] = RateLimitDelay]
             /\ Goto(t, "sleep_rate")
        ELSE /\ Goto(t, "cb_request_err")
             /\ UNCHANGED delay
  /\ UNCHANGED << shared, locals, full_passes, reply, pacing >>
  /\ backoff_due' = [backoff_due EXCEPT ![t] = @ /\ pc'[t] # "sleep_rate"]

\* lines 144-146
http_error(t) ==
  /\ active = t
  /\ pc[t] = "cb_http"
  /\ Emit("http_error")
  /\ \E ok \in BOOLEAN : Goto(t, IF ok THEN "cb_page" ELSE "cb_request_err")
  /\ todo' = [todo EXCEPT ![t] = << >>]
  /\ UNCHANGED << shared, categories_list, page, listing_urls, url, listings, status,
                  delay, full_passes, reply, pacing,
                  backoff_due >>

\* lines 148-150: the handler of get_page_listings
request_error(t) ==
  /\ active = t
  /\ pc[t] = "cb_request_err"
  /\ Emit("request_error")
  /\ \E ok \in BOOLEAN : Goto(t, IF ok THEN "cb_page" ELSE "cb_category_err")
  /\ todo' = [todo EXCEPT ![t] = << >>]
  /\ listing_urls' = [listing_urls EXCEPT ![t] = {}]
  /\ UNCHANGED << shared, categories_list, page, url, listings, status,
                  delay, full_passes, reply, pacing,
                  backoff_due >>

(***************************************************************************)
(* parse_listings_page, extract_listing_details.                           *)
(***************************************************************************)
\* lines 175-180, 191: the for loop over the set of URLs, then the request of the
\* detail page; a closed session or a URL that is not absolute raises at the request,
\* and the handler of line 234 returns None
for_url(t) ==
  /\ active = t
  /\ pc[t] = "for_url"
  /\ IF listing_urls[t] = {}
     THEN /\ todo' = [todo EXCEPT ![t] = listings[t]]
          /\ listings' = [listings EXCEPT ![t] = << >>]
          /\ Goto(t, "cb_page")
          /\ UNCHANGED << listing_urls, url, pacing >>
     ELSE /\ \E u \in listing_urls[t] :
               /\ listing_urls' = [listing_urls EXCEPT ![t] = @ \ {u}]
               /\ IF session = "open" /\ IsAbsolute(u)
                  THEN /\ url' = [url EXCEPT ![t] = u]
                       /\ Goto(t, "detail_wait")
                       /\ pacing' = [pacing EXCEPT ![t].listing = "none"]
                  ELSE /\ Goto(t, "for_url")
                       /\ UNCHANGED << url, pacing >>
          /\ UNCHANGED << todo, listings >>
  /\ UNCHANGED << shared, categories_list, page, status, events, delay,
                  full_passes, reply >>
  /\ backoff_due' = [backoff_due EXCEPT ![t] = @ /\ pc'[t] # "detail_wait"]

DetailOutcomes == {"200", "429", "404", "error"}

\* lines 191-193, 234-235: the response arrives (or the transport fails)
detail_response(t) ==
  /\ active = 0
  /\ pc[t] = "detail_wait"
  /\ \E outcome \in DetailOutcomes :
        /\ IF outcome = "200"
           THEN /\ Goto(t, "detail_text")
                /\ UNCHANGED url
           ELSE /\ url' = [url EXCEPT ![t] = << >>]
                /\ Goto(t, "for_url")
        /\ backoff_due' = [backoff_due EXCEPT ![t] = (outcome = "429")]
  /\ events' = << >>
  /\ UNCHANGED << shared, categories_list, page, listing_urls, listings, todo, status,
                  delay, full_passes, reply, pacing >>

\* lines 195-237: the body is read (or that fails), parsed and classified
detail_body(t) ==
  /\ active = 0
  /\ pc[t] = "detail_text"
  /\ \E ok \in BOOLEAN :
        LET listing == ListingOf(url[t], DetailPage(url[t]))
        IN  listings' = [listings EXCEPT ![t] =
                           IF ok /\ listing # NoListing THEN Append(@, listing) ELSE @]
  /\ url' = [url EXCEPT ![t] = << >>]
  /\ Goto(t, "for_url")
  /\ events' = << >>
  /\ UNCHANGED << shared, categories_list, page, listing_urls, todo, status,
                  delay, full_passes, reply, pacing,
                  backoff_due >>

(***************************************************************************)
(* asyncio.sleep ends.                                                     *)
(***************************************************************************)
wake(t) ==
  /\ active = 0
  /\ pc[t] \in SleepPcs
  /\ delay' = [delay EXCEPT ![t] = 0]
  /\ Goto(t, CASE pc[t] = "sleep_listing" -> "for_listing"
               [] pc[t] = "sleep_page" -> "for_page"
               [] pc[t] = "sleep_rate" -> "cb_page"
               [] pc[t] = "sleep_cat" -> "for_category"
               [] OTHER -> "while")
  \* line 96: the next page; line 70: the next category; line 143: return []
  /\ page' = [page EXCEPT ![t] = IF pc[t] = "sleep_page" THEN @ + 1 ELSE @]
  /\ categories_list' = [categories_list EXCEPT ![t] =
                           IF pc[t] = "sleep_cat" THEN Tail(@) ELSE @]
  /\ todo' = [todo EXCEPT ![t] = IF pc[t] = "sleep_rate" THEN << >> ELSE @]
  /\ events' = << >>
  \* the sleep that completes is no longer due; the category pause stands in for
  \* the listing and page sleeps an exception skipped, the recovery sleep for any
  /\ pacing' = [pacing EXCEPT ![t] =
                  LET Covered(s) == IF s = "owed" THEN "covered" ELSE s
                  IN  CASE pc[t] = "sleep_listing" -> [@ EXCEPT !.listing = "none"]
                        [] pc[t] = "sleep_page" -> [@ EXCEPT !.page = "none"]
                        [] pc[t] = "sleep_cat" ->
                             [@ EXCEPT !.category = "none",
                                       !.listing = Covered(@), !.page = Covered(@)]
                        [] pc[t] = "sleep_cycle" -> [@ EXCEPT !.cycle = "none"]
                        [] pc[t] = "sleep_err" ->
                             [listing |-> Covered(@.listing), page |-> Covered(@.page),
                              category |-> Covered(@.category), cycle |-> Covered(@.cycle)]
                        [] OTHER -> @]
  /\ UNCHANGED << shared, listing_urls, url, listings, status, full_passes, reply,
                  backoff_due >>

\* the steps of a task that do not depend on what the site serves
scheduler_step(t) ==
  \/ announce_start(t)
  \/ loop_head(t)
  \/ announce_cycle(t)
  \/ for_category(t)
  \/ category_delay(t)
  \/ cycle_delay(t)
  \/ cycle_error(t)
  \/ wake(t)

scan_step(t) ==
  \/ announce_scan(t)
  \/ for_page(t)
  \/ announce_page(t)
  \/ for_listing(t)
  \/ category_error(t)
  \/ page_response(t)
  \/ rate_limited(t)
  \/ http_error(t)
  \/ request_error(t)
  \/ for_url(t)

listing_step(t) ==
  \/ announce_listing(t)
  \/ detail_response(t)
  \/ detail_body(t)

\* start_247_scraping is not called again once stop_scraping has ended a run
NoRestart == is_running \/ \A t \in Tasks : pc[t] = "idle"

Next ==
  \/ stop_scraping
  \/ \E t \in Tasks :
        \/ NoRestart /\ start_247_scraping(t)
        \/ scheduler_step(t)
        \/ scan_step(t)
        \/ listing_step(t)
        \/ page_body(t, SearchPages)

Spec == Init /\ [][Next]_vars

\* the search-result pages of a site that lists nothing
EmptyPages == { << >> }

\* start_247_scraping is called at any time, against a site that lists nothing
NextRestart ==
  \/ stop_scraping
  \/ \E t \in Tasks :
        \/ start_247_scraping(t)
        \/ scheduler_step(t)
        \/ scan_step(t)
        \/ page_body(t, EmptyPages)

SpecRestart == Init /\ [][NextRestart]_vars

(***************************************************************************)
(* One search-result page, from the arrival of its body to the pause after *)
(* the page, for every page of up to MaxAnchors anchors.                   *)
(***************************************************************************)
\* the forms an anchor's href takes: absolute, root-relative (with and without a
\* query), relative to the current path, and a link that is no listing
Hrefs ==
  { << Origin, Fragment, "AAA" >>, << Fragment, "AAA" >>,
    << Fragment, "AAA", "?x=1" >>, << Fragment, "BBB" >>, << Fragment, "EEE" >>,
    << "..", Fragment, "CCC" >>, << "/iad/immobilien/", "neubau" >> }

\* the anchors of the pages: every sequence of up to MaxAnchors hrefs
PageForms == UNION { [1..k -> Hrefs] : k \in 0..MaxAnchors }

\* a scan of the first category has got the response of page 1 with status 200
InitPage ==
  /\ is_running = TRUE
  /\ current_cycle = 1
  /\ found_listings = << >>
  /\ session = "open"
  /\ active = 0
  /\ pc = [t \in Tasks |-> IF t = 1 THEN "page_text" ELSE "idle"]
  /\ categories_list \in { [t \in Tasks |-> IF t = 1 THEN order ELSE << >>] :
                             order \in Shuffles(Categories) }
  /\ page = [t \in Tasks |-> IF t = 1 THEN 1 ELSE 0]
  /\ listing_urls = [t \in Tasks |-> {}]
  /\ url = [t \in Tasks |-> << >>]
  /\ listings = [t \in Tasks |-> << >>]
  /\ todo = [t \in Tasks |-> << >>]
  /\ status = [t \in Tasks |-> IF t = 1 THEN "200" ELSE "none"]
  /\ events = << >>
  /\ delay = [t \in Tasks |-> 0]
  /\ full_passes = 0
  /\ reply = NoReply
  /\ pacing = [t \in Tasks |-> IF t = 1 THEN [NoPacing EXCEPT !.page = "owed"] ELSE NoPacing]
  /\ backoff_due = [t \in Tasks |-> FALSE]

NextPage ==
  \/ stop_scraping
  \/ \E t \in Tasks :
        \/ page_body(t, PageForms)
        \/ for_url(t)
        \/ announce_page(t)
        \/ for_listing(t)
        \/ wake(t)
        \/ listing_step(t)

SpecPage == InitPage /\ [][NextPage]_vars

(***************************************************************************)
(* get_status, get_recent_listings.                                        *)
(***************************************************************************)
Min(a, b) == IF a < b THEN a ELSE b
Max(a, b) == IF a > b THEN a ELSE b

\* lst[start:] of Python: a negative start counts from the end
SliceFrom(lst, start) ==
  LET n == Len(lst)
      first == IF start < 0 THEN Max(n + start, 0) ELSE Min(start, n)
  IN  SubSeq(lst, first + 1, n)

\* lines 310-312
RecentListings(limit) ==
  IF found_listings # << >> THEN SliceFrom(found_listings, 0 - limit) ELSE << >>

get_recent_listings(limit) ==
  /\ active = 0
  /\ reply' = [NoReply EXCEPT !.op = "get_recent_listings", !.limit = limit,
                              !.listings = RecentListings(limit)]
  /\ UNCHANGED << shared, active, pc, locals, events, delay, full_passes,
                  backoff_due, pacing >>

\* lines 302-308
get_status ==
  /\ active = 0
  /\ reply' = [NoReply EXCEPT !.op = "get_status", !.is_running = is_running,
                              !.current_cycle = current_cycle,
                              !.total_found = Len(found_listings)]
  /\ UNCHANGED << shared, active, pc, locals, events, delay, full_passes,
                  backoff_due, pacing >>

\* detail URLs of the site
DetailUrls ==
  { << Origin, Fragment, "AAA" >>, << Origin, Fragment, "AAA", "?x=1" >>,
    << Origin, Fragment, "BBB" >>, << Origin, Fragment, "CCC" >>,
    << Origin, Fragment, "DDD" >> }

\* the listings extract_listing_details returns for them
AcceptedListings ==
  { ListingOf(u, DetailPage(u)) : u \in DetailUrls } \ { NoListing }

\* the buffers of up to n listings
Buffers(n) == UNION { [1..k -> AcceptedListings] : k \in 0..n }

\* the scraper at rest after a run that stop_scraping ended: any buffer, any cycle count
InitQuery ==
  /\ is_running = FALSE
  /\ current_cycle \in 1..MaxCycle
  /\ found_listings \in Buffers(MaxBuf)
  /\ session = "closed"
  /\ active = 0
  /\ pc = [t \in Tasks |-> IF t = 1 THEN "returned" ELSE "idle"]
  /\ categories_list = [t \in Tasks |-> << >>]
  /\ page = [t \in Tasks |-> 0]
  /\ listing_urls = [t \in Tasks |-> {}]
  /\ url = [t \in Tasks |-> << >>]
  /\ listings = [t \in Tasks |-> << >>]
  /\ todo = [t \in Tasks |-> << >>]
  /\ status = [t \in Tasks |-> "none"]
  /\ events = << >>
  /\ delay = [t \in Tasks |-> 0]
  /\ full_passes = current_cycle - 1
  /\ reply = NoReply
  /\ pacing = [t \in Tasks |-> NoPacing]
  /\ backoff_due = [t \in Tasks |-> FALSE]

NextQuery ==
  \/ get_status
  \/ \E limit \in 0..MaxLimit : get_recent_listings(limit)

SpecQuery == InitQuery /\ [][NextQuery]_vars

(***************************************************************************)
(* extract_price called on its own, for every page whose three price       *)
(* selectors find one of the texts below (or nothing).                     *)
(***************************************************************************)
\* what a price selector finds: no element, or an element with this text
PriceTexts ==
  { NoElement,
    << >>,
    << "V","B" >>,
    << "1",".","2","3","4",".","5","6","7" >>,
    << "€"," ","7","0",",","-" >> }

PriceSoups ==
  { [NoSoup EXCEPT !.price_els = els] : els \in [1..3 -> PriceTexts] }

\* lines 247-257, called with the parsed page soup
call_extract_price(soup) ==
  /\ active = 0
  /\ reply' = [NoReply EXCEPT !.op = "extract_price", !.soup = soup,
                              !.price = extract_price(soup)]
  /\ UNCHANGED << shared, active, pc, locals, events, delay, full_passes,
                  backoff_due, pacing >>

NextExtract == \E soup \in PriceSoups : call_extract_price(soup)

SpecExtract == Init /\ [][NextExtract]_vars

(***************************************************************************)
(* Properties.                                                             *)
(***************************************************************************)
\* task t is inside continuous_scan_loop
InLoop(t) == pc[t] \notin {"idle", "cb_started", "returned", "raised"}

\* task t sends a request in this step
SendsRequest(t) == pc'[t] \in {"page_wait", "detail_wait"} /\ pc'[t] # pc[t]

\* stop_scraping has ended the run: the flag is down and start was called before
Stopped == ~is_running /\ \E t \in Tasks : pc[t] # "idle"

\* C1: once stop_scraping has been called (and start_247_scraping is not called
\* again), the scan sends no further request, neither for a search-result page
\* nor for a detail page.
C1_NoFetchAfterStop ==
  [][\A t \in Tasks : Stopped => ~SendsRequest(t)]_vars

\* C2: once stop_scraping has been called while the scraper ran (and
\* start_247_scraping is not called again), is_running stays false and no call of
\* start_247_scraping ends by raising: the loop halts and the call returns.
C2_StopEndsRunWithoutRaising ==
  [][Stopped => /\ ~is_running'
                /\ \A t \in Tasks : pc'[t] = "raised" => pc[t] = "raised"]_vars

\* C3: no two requests are in flight at the same time and at most one scan loop is
\* active, whatever the sequence of start_247_scraping, stop_scraping and loop steps.
C3_OneFetchOneLoop ==
  /\ Cardinality({ t \in Tasks : pc[t] \in FetchPcs }) <= 1
  /\ Cardinality({ t \in Tasks : InLoop(t) }) <= 1

\* C4: a call of start_247_scraping while is_running is true gives the callback
\* exactly one message, the notification, and ends at once (no second loop); it
\* leaves is_running, current_cycle, the buffer, the session and the other tasks
\* as they are.
C4_StartWhileRunningIsNoOp ==
  [][\A t \in Tasks :
       (is_running /\ pc[t] = "idle" /\ pc'[t] # "idle") =>
          /\ pc'[t] \in {"returned", "raised"}
          /\ events' = << "already" >>
          /\ is_running' = is_running
          /\ current_cycle' = current_cycle
          /\ found_listings' = found_listings
          /\ session' = session
          /\ \A u \in Tasks \ {t} : pc'[u] = pc[u]]_vars

\* a call of start_247_scraping found the scraper running, while a loop is active
C4_Witness ==
  /\ is_running
  /\ events = << "already" >>
  /\ \E t, u \in Tasks : pc[t] = "returned" /\ InLoop(u)

\* C5: no failure ends the scan loop: the handler of the loop reports one
\* diagnostic event, sleeps 600 s and the loop goes on; a task leaves the loop
\* only when stop_scraping has set is_running to false, and then by returning.
C5_OnlyStopEndsLoop ==
  [][\A t \in Tasks :
       /\ (InLoop(t) /\ ~InLoop(t)') => (~is_running /\ pc'[t] = "returned")
       /\ pc[t] = "cb_cycle_err" =>
             (pc'[t] = "sleep_err" /\ delay'[t] = ErrorDelay
                /\ events' = Append(events, "cycle_error"))]_vars

\* C6: after any HTTP 429 response, of a search-result page or of a detail page,
\* the task sends no request before it has slept the 60 s back-off (so it does
\* not retry inline), and the page gives no listings.
C6_RateLimitBacksOff ==
  /\ [][\A t \in Tasks :
          /\ backoff_due[t] => ~SendsRequest(t)
          /\ pc'[t] = "sleep_rate" => delay'[t] = RateLimitDelay]_vars
  /\ [](\A t \in Tasks : (status[t] = "429" /\ pc[t] = "cb_page") => todo[t] = << >>)

\* the page request of task t failed: a status other than 200, or an exception
PageFailed(t) == status[t] \in {"429", "500", "error"}

ErrorEvents == {"rate_limit", "http_error", "request_error", "category_error", "cycle_error"}

\* C7: when fetching or parsing a search-result page fails, the page gives no
\* listings, exactly one error event is reported, nothing is raised out of
\* scan_category and the scan goes on with the next page of the category.
C7_PageFaultIsolation ==
  /\ [](\A t \in Tasks :
          (PageFailed(t) /\ pc[t] \in {"cb_page", "sleep_rate"}) =>
             /\ todo[t] = << >>
             /\ Len(SelectSeq(events, LAMBDA e : e \in ErrorEvents))
                  = IF pc[t] = "cb_page" /\ status[t] = "429" THEN 0 ELSE 1)
  /\ [][\A t \in Tasks :
          PageFailed(t) => pc'[t] \notin {"cb_category_err", "cb_cycle_err"}]_vars

\* C8: every listing in the result buffer has a price above 0 and comes from a
\* detail page whose lower-cased full text contains one of the private-seller
\* keywords.
C8_BufferHoldsPrivateOffers ==
  \A i \in 1..Len(found_listings) :
     LET l == found_listings[i]
         text == Lower(get_text(DetailPage(l.url)))
     IN  /\ l.price > 0
         /\ l.price = extract_price(DetailPage(l.url))
         /\ \E k \in 1..Len(private_keywords) : Contains(text, private_keywords[k])

\* listings were appended while the site also served pages that do not qualify
C8_Witness == Len(found_listings) = 2

\* C9: get_recent_listings(limit) returns, for every buffer and every limit >= 0,
\* the last min(limit, length) listings of the buffer, in buffer order.
C9_RecentIsLastLimit ==
  reply.op = "get_recent_listings" =>
     LET n == Len(found_listings)
     IN  reply.listings = SubSeq(found_listings, n - Min(reply.limit, n) + 1, n)

\* task t begins a pass of the loop in this step
BeginsPass(t) == pc[t] = "while" /\ pc'[t] = "cb_cycle"

\* C10 as claimed: at every state current_cycle is the number of passes in which
\* every configured category was scanned.
C10_CountsFullPasses == current_cycle = full_passes

\* C10 as amended: current_cycle never decreases and goes up by exactly one in
\* each step that begins a pass of the loop, and in no other step: it counts the
\* passes begun, the pass in progress and the passes cut short included, so it
\* is never below the number of full passes.
C10_CountsPassesBegun ==
  /\ [][\/ current_cycle' = current_cycle + 1 /\ \E t \in Tasks : BeginsPass(t)
        \/ current_cycle' = current_cycle /\ \A t \in Tasks : ~BeginsPass(t)]_vars
  /\ [](full_passes <= current_cycle)

\* two passes were begun and neither ran over every category
C10_Witness == current_cycle = 2 /\ full_passes = 0

\* the number of error events in the log e
ErrorCount(e) == Len(SelectSeq(e, LAMBDA m : m \in ErrorEvents))

\* statements of scan_category and of what it calls
ScanPcs ==
  { "cb_scan", "for_page", "page_wait", "page_text", "cb_rate_limit", "cb_http",
    "cb_request_err", "sleep_rate", "cb_page", "for_listing", "cb_fund",
    "sleep_listing", "sleep_page", "for_url", "detail_wait", "detail_text",
    "cb_category_err" }

\* C11: every failure gives the callback exactly one event for that failure: a
\* detail request that fails (a status other than 200, a transport error) or a
\* detail page of a qualifying listing that cannot be read is reported once by
\* the time extract_listing_details returns; a failed search-page request, a rate
\* limit, a category failure and a cycle failure are each reported once by their
\* handler, and a failure one handler reported is not reported again by the next.
C11_OneEventPerFailure ==
  [][\A t \in Tasks :
       /\ (pc[t] = "detail_wait" /\ pc'[t] = "for_url") => ErrorCount(events') = 1
       /\ (/\ pc[t] = "detail_text"
           /\ ListingOf(url[t], DetailPage(url[t])) # NoListing
           /\ listings'[t] = listings[t]) => ErrorCount(events') = 1
       /\ pc[t] \in {"cb_rate_limit", "cb_http", "cb_request_err",
                     "cb_category_err", "cb_cycle_err"} =>
             ErrorCount(events') = ErrorCount(events) + 1
       /\ pc[t] \in {"cb_rate_limit", "cb_http"} => pc'[t] # "cb_request_err"]_vars

\* C12: a failure inside scan_category does not reach the scheduler's handler:
\* the handler of scan_category reports it once and scan_category returns, so
\* the scheduler goes on to the pause and the next category, with the categories
\* still to scan in this cycle unchanged.
C12_CategoryFailureAbsorbed ==
  [][\A t \in Tasks :
       /\ pc[t] \in ScanPcs => pc'[t] \in ScanPcs \cup {"category_delay"}
       /\ pc[t] = "cb_category_err" =>
             /\ pc'[t] = "category_delay"
             /\ events' = Append(events, "category_error")
             /\ categories_list'[t] = categories_list[t]]_vars

\* task t sends the request of a search-result page in this step
SendsPageRequest(t) == pc'[t] = "page_wait" /\ pc[t] # "page_wait"

\* C17: a pass starts from a permutation of the configured categories, and the
\* list of categories still to scan only loses its head, after that category's
\* scan and pause (or is dropped at a stop or a failure), so a pass that runs to
\* its end scans every category once; a scan requests page 1 first, then the
\* next page after each page, and never a page beyond 3.
C17_EachCategoryOncePagesInOrder ==
  /\ [][\A t \in Tasks :
          /\ (pc[t] = "cb_cycle" /\ pc'[t] = "for_category") =>
                categories_list'[t] \in Shuffles(Categories)
          /\ categories_list'[t] # categories_list[t] =>
                \/ pc[t] = "cb_cycle"
                \/ pc[t] = "sleep_cat" /\ categories_list'[t] = Tail(categories_list[t])
                \/ categories_list'[t] = << >> /\ (~is_running \/ pc[t] = "cb_cycle_err")
          /\ SendsPageRequest(t) => (pc[t] = "for_page" /\ page[t] \in 1..LastPage)
          /\ (pc'[t] = "for_page" /\ pc[t] # "for_page") =>
                \/ pc[t] = "cb_scan" /\ page'[t] = 1
                \/ pc[t] = "sleep_page" /\ page'[t] = page[t] + 1
          /\ page'[t] # page[t] => (pc'[t] = "for_page" \/ page'[t] = 0)]_vars
  /\ [][full_passes' # full_passes =>
          /\ full_passes' = full_passes + 1
          /\ \E t \in Tasks : pc[t] = "for_category" /\ categories_list[t] = << >>]_vars
  /\ [](\A t \in Tasks :
          /\ \A i, j \in 1..Len(categories_list[t]) :
                /\ categories_list[t][i] \in Categories
                /\ categories_list[t][i] = categories_list[t][j] => i = j
          /\ pc[t] \in ScanPcs => categories_list[t] # << >>)

\* a pass ran over every category and the scraper was not stopped
C17_Witness ==
  /\ is_running
  /\ full_passes = 1
  /\ \E t \in Tasks : pc[t] = "sleep_cycle"

\* C19: once stop_scraping has been called (and start_247_scraping is not called
\* again) no step changes the result buffer: nothing is appended, not even a
\* qualifying listing whose detail page was fetched before the stop, so the
\* total_found of get_status stays what it was.
C19_NoAppendAfterStop ==
  [][Stopped => found_listings' = found_listings]_vars

\* stop_scraping was called while a fetched qualifying listing waited to be
\* appended: the loop over the listings is about to look at it
C19_Witness ==
  /\ Stopped
  /\ \E t \in Tasks : pc[t] = "for_listing" /\ todo[t] # << >>

\* C20: when no call of start_247_scraping is in progress any more (each has
\* returned or raised, so no scan loop is active), is_running is false.
C20_FlagDownAtRest ==
  ( /\ \A t \in Tasks : pc[t] \in {"idle", "returned", "raised"}
    /\ \E t \in Tasks : pc[t] # "idle" ) => ~is_running

\* C13: every URL the Discoverer returns for a search-result page begins with
\* the site's origin and contains the listing-path fragment, whatever the form
\* of the hrefs on the page (the result is a set, so it has no duplicates).
C13_DiscoveredUrlsAbsolute ==
  \A t \in Tasks : \A u \in listing_urls[t] : u[1] = Origin /\ HasFragment(u)

\* C14: the Discoverer keeps one URL for each listing path: two URLs of its
\* result that name the same listing (the same path, whatever the query) are
\* the same URL, so each detail page is fetched once.
C14_OneUrlPerListingPath ==
  \A t \in Tasks : \A u, v \in listing_urls[t] : ListingId(u) = ListingId(v) => u = v

\* C15: every listing in the result buffer carries the area extracted from its
\* detail page; with area 0 its eur_per_m2 is 0, and with area > 0 its
\* eur_per_m2 is price/area rounded to the nearest integer, a half going to the
\* even neighbour (Python's round).
C15_PricePerAreaRounded ==
  \A i \in 1..Len(found_listings) :
     LET l == found_listings[i]
         e == l.eur_per_m2
         d == l.price - e * l.area
     IN  /\ l.area = extract_area(DetailPage(l.url))
         /\ l.area >= 0
         /\ l.area = 0 => e = 0
         /\ l.area > 0 =>
               /\ 2 * d <= l.area
               /\ 2 * d >= 0 - l.area
               /\ (2 * d = l.area \/ 2 * d = 0 - l.area) => e % 2 = 0

\* the buffer holds a listing of unknown area and one whose quotient is a half
C15_Witness ==
  \E i, j \in 1..Len(found_listings) :
     /\ found_listings[i].area = 0
     /\ found_listings[j].area > 0
     /\ 2 * (found_listings[j].price % found_listings[j].area) = found_listings[j].area

\* the text holds at least one digit
HasDigit(text) == \E k \in 1..Len(text) : text[k] \in Digits

\* C16: extract_price returns the number written by the digits alone of the
\* first price selector, in priority order, that finds an element whose text
\* holds a digit ("1.234.567" gives 1234567); selectors that find nothing or an
\* element without a digit are passed over; when no selector gives a number the
\* result is 0.  The call always returns.
C16_PriceFromFirstDigits ==
  reply.op = "extract_price" =>
     LET els == reply.soup.price_els
         hits == { i \in 1..Len(els) : els[i] # NoElement /\ HasDigit(els[i]) }
     IN  IF hits = {} THEN reply.price = 0
         ELSE LET first == CHOOSE i \in hits : \A j \in hits : i <= j
              IN  /\ reply.price = ParseInt(OnlyDigits(els[first]))
                  /\ els[first] = << "1",".","2","3","4",".","5","6","7" >> =>
                        reply.price = 1234567
                  /\ els[first] = << "€"," ","7","0",",","-" >> => reply.price = 70

\* the first selector found an element without a digit and the second "1.234.567"
C16_Witness ==
  /\ reply.op = "extract_price"
  /\ reply.soup.price_els[1] = << "V","B" >>
  /\ reply.soup.price_els[2] = << "1",".","2","3","4",".","5","6","7" >>
  /\ reply.price = 1234567

\* task t appends a listing to the result buffer in this step
Appends(t) == pc[t] = "for_listing" /\ pc'[t] = "cb_fund"

\* every pacing sleep that starts has a duration inside its window
SleepsInWindow ==
  \A t \in Tasks :
     /\ (pc'[t] = "sleep_listing" /\ pc[t] # "sleep_listing") =>
           delay'[t] \in ListingDelayMin..ListingDelayMax
     /\ (pc'[t] = "sleep_page" /\ pc[t] # "sleep_page") =>
           delay'[t] \in PageDelayMin..PageDelayMax
     /\ (pc'[t] = "sleep_cat" /\ pc[t] # "sleep_cat") =>
           delay'[t] \in CategoryDelayMin..CategoryDelayMax
     /\ (pc'[t] = "sleep_cycle" /\ pc[t] # "sleep_cycle") =>
           delay'[t] \in CycleDelayMin..CycleDelayMax

\* the pacing sleeps that must not be in state s when task t appends a listing
\* or sends a request in this step: the listing sleep before any append or
\* request, the page and cycle sleeps before a search-page request, the
\* category sleep before the first search-page request of a category
NoneIs(t, s) ==
  /\ (Appends(t) \/ SendsRequest(t)) => pacing[t].listing \notin s
  /\ SendsPageRequest(t) =>
        /\ pacing[t].page \notin s
        /\ pacing[t].cycle \notin s
        /\ page[t] = 1 => pacing[t].category \notin s

\* C18 as claimed: after each append the listing sleep of 5..12 s completes
\* before the next append or request, after each page the page sleep of
\* 15..30 s before the next search-page request, after each category scan the
\* category sleep of 180..480 s before the next category's first request, after
\* the loop over the categories the cycle sleep of 1200..2700 s before the next
\* cycle's first request; every sleep's duration is inside its window.
C18_PacingOrder ==
  [][SleepsInWindow /\ \A t \in Tasks : NoneIs(t, {"owed", "covered"})]_vars

\* C18 as amended: every pacing sleep lasts a time inside its window, and a
\* task appends or requests only when each sleep due before that step has
\* completed, or, where an exception cut the scan short and skipped it, when the
\* sleep of the handler that took over has completed instead: the category
\* pause (180..480 s) for a listing or page sleep, the recovery sleep (600 s)
\* for any of them.
C18_PacingOrderOrHandlerSleep ==
  [][SleepsInWindow /\ \A t \in Tasks : NoneIs(t, {"owed"})]_vars

\* a listing was appended, its sleep was skipped and the category pause has
\* completed in its place: the next category's first request is about to be sent
C18_Witness ==
  \E t \in Tasks :
     /\ pc[t] = "for_page"
     /\ is_running
     /\ session = "open"
     /\ page[t] = 1
     /\ pacing[t].listing = "covered"
     /\ found_listings # << >>

=============================================================================
